---- MODULE Spec2Model ----
(***************************************************************************)
(* Batch construction of the speech-LLM Lhotse dataset                     *)
(* (nemo/collections/multimodal/speech_llm/data/lhotse_dataset.py).        *)
(*                                                                         *)
(* Tensors.  A 1-D tensor is a record [dtype, data]; a 2-D tensor is a     *)
(* record [dtype, data] whose data is a sequence of rows.  dtype is "long" *)
(* or "float".  The elements of a long tensor are the integers themselves; *)
(* the elements of a float tensor are fixed-point numbers counted in       *)
(* halves (3 stands for 1.5), so that the float -> long cast loses the     *)
(* fraction as torch's .long() does.  A Python scalar is [dtype, v] with   *)
(* the same convention.                                                    *)
(***************************************************************************)
EXTENDS Integers, Sequences, FiniteSets, TLC

VARIABLES
    dataset,    \* the fields LhotseAudioQuestionAnswerDataset.__init__ stores
    call,       \* the call being served: its name and its arguments
    ret,        \* what that call returned or raised
    task,       \* the run.Partial or run.Script the plugins are set up on
    executor,   \* the run.Executor the plugins are set up on
    environ,    \* os.environ
    callbacks0  \* task.trainer.callbacks before any plugin: whether the list
                \* exists, and what it holds

vars == <<dataset, call, ret, task, executor, environ, callbacks0>>

\* what the run plugins work on (nemo/lightning/run/plugins.py)
run == <<task, executor, environ, callbacks0>>

(***************************************************************************)
(* Bounds of the model.                                                    *)
(***************************************************************************)
MaxItems == 2       \* collate_vectors: number of items
MaxItemLen == 2     \* collate_vectors: length of one item

(***************************************************************************)
(* Arithmetic helpers.                                                     *)
(***************************************************************************)
Max2(a, b) == IF a >= b THEN a ELSE b

Min2(a, b) == IF a <= b THEN a ELSE b

SetMax(S) == CHOOSE m \in S : \A x \in S : x <= m

Range(s) == {s[i] : i \in 1..Len(s)}

(***************************************************************************)
(* Element conversions between dtypes.                                     *)
(***************************************************************************)
\* float -> long: truncation toward zero of a number counted in halves
ToLong(v) == IF v >= 0 THEN v \div 2 ELSE -((-v) \div 2)

\* torch's default float type (float32) keeps this many binary digits
Float32Digits == 24

\* the one element of a set of one element: {f(v) : v \in {e}} is f of the
\* value of e
TheOne(S) == CHOOSE x \in S : TRUE

\* the number of binary digits of n, 0 <= n < 2^31
BitLength(n) == TheOne({Cardinality({k \in 0..30 : 2^k <= v}) : v \in {n}})

\* round to nearest, ties to even: M is what is kept, guard the first digit
\* dropped, sticky whether anything non-zero follows it
RoundHalfEven(M, guard, sticky) ==
    IF guard = 1 /\ (sticky \/ M % 2 = 1) THEN M + 1 ELSE M

\* an integer n >= 0 converted to float32 (.float(), or promotion of a long
\* tensor that meets a float), as the integer the float32 holds
Float32OfInt(n) ==
    TheOne({IF v < 2^Float32Digits THEN v
            ELSE TheOne({RoundHalfEven(v \div 2^S, (v % 2^S) \div 2^(S - 1),
                                       (v % 2^S) % 2^(S - 1) # 0) * 2^S :
                            S \in {BitLength(v) - Float32Digits}}) :
                v \in {n}})

\* F more binary digits of a quotient whose digits so far are M and whose
\* remainder is rem, the divisor being h < 2^25; six digits at a time
RECURSIVE LongDivide(_, _, _, _)
LongDivide(M, rem, h, F) ==
    IF F <= 6 THEN [m |-> M * 2^F + (rem * 2^F) \div h, rem |-> (rem * 2^F) % h]
    ELSE TheOne({LongDivide(m6, rem6, h, F - 6) :
                    m6 \in {M * 64 + (rem * 64) \div h},
                    rem6 \in {(rem * 64) % h}})

\* A number as a float32 tensor element, counted in halves.  from = "long":
\* an integer (.float(), or a long that meets a float).  from = "float": a
\* float counted in halves, which a float32 tensor element already is and a
\* Python float scalar becomes on meeting a tensor.  The float32 of -v is
\* minus that of v.
ToFloat32(v, from) ==
    TheOne({(IF x >= 0 THEN 1 ELSE -1) * (IF from = "long" THEN 2 ELSE 1)
                * Float32OfInt(IF x >= 0 THEN x ELSE -x) : x \in {v}})

ConvertValue(v, from, to) ==
    IF to = "float" THEN ToFloat32(v, from)
    ELSE IF from = "long" THEN v ELSE ToLong(v)

\* Python's float (float64) keeps this many binary digits
Float64Digits == 53

\* a float32 m * 2^e, with m below 2^Float32Digits
Float32(m, e) ==
    TheOne({IF v = 2^Float32Digits THEN [m |-> v \div 2, e |-> e + 1]
            ELSE [m |-> v, e |-> e] : v \in {m}})

\* a long tensor element n >= 0 promoted to float32
AsFloat32(n) ==
    TheOne({TheOne({Float32(x \div 2^S, S) :
                        S \in {Max2(BitLength(x) - Float32Digits, 0)}}) :
                x \in {Float32OfInt(n)}})

\* p / q * 2^e = (p' / q') * 2^e' with q' <= p' < 2 * q', for p, q > 0
ScaleRatio(p, q, e) ==
    TheOne({LET p1 == IF d < 0 THEN p * 2^(-d) ELSE p
                q1 == IF d > 0 THEN q * 2^d ELSE q
            IN  IF p1 >= q1 THEN [p |-> p1, q |-> q1, e |-> e + d]
                ELSE [p |-> 2 * p1, q |-> q1, e |-> e + d - 1] :
                d \in {BitLength(p) - BitLength(q)}})

\* the Python float p / q (p, q > 0) as the float32 a tensor operation turns
\* it into: p / q rounded to Float64Digits binary digits, and that rounded
\* to Float32Digits.  hi holds the first Float32Digits digits, lo the rest,
\* T the rest after the first rounding.
Float32OfRatio(p, q) ==
    LET W == 2^(Float64Digits - Float32Digits)
    IN  TheOne({TheOne({TheOne({TheOne({
            Float32(RoundHalfEven(IF T = W THEN hi.m + 1 ELSE hi.m,
                                  (T % W) \div (W \div 2),
                                  (T % W) % (W \div 2) # 0),
                    s.e - (Float32Digits - 1)) :
                T \in {RoundHalfEven(lo.m, (2 * lo.rem) \div s.q,
                                     (2 * lo.rem) % s.q # 0)}}) :
                lo \in {LongDivide(0, hi.rem, s.q, Float64Digits - Float32Digits)}}) :
                hi \in {LongDivide(1, s.p - s.q, s.q, Float32Digits - 1)}}) :
                s \in {ScaleRatio(p, q, 0)}})

\* a * b in float32: the exact product x.hi * 2^Float32Digits + x.lo,
\* computed on half-length digits, rounded to Float32Digits binary digits
Float32Mul(a, b) ==
    LET B == 2^(Float32Digits \div 2)
        W == 2^Float32Digits
        mid == (a.m \div B) * (b.m % B) + (a.m % B) * (b.m \div B)
        low == (a.m % B) * (b.m % B) + (mid % B) * B
    IN  TheOne({TheOne({
            IF S = 0 THEN Float32(x.lo, a.e + b.e)
            ELSE Float32(RoundHalfEven(x.hi * 2^(Float32Digits - S) + x.lo \div 2^S,
                                       (x.lo \div 2^(S - 1)) % 2,
                                       x.lo % 2^(S - 1) # 0),
                         a.e + b.e + S) :
                S \in {BitLength(x.hi)}}) :
                x \in {[lo |-> low % W,
                        hi |-> (a.m \div B) * (b.m \div B) + mid \div B + low \div W]}})

\* a / b in float32, b > 0
Float32Div(a, b) ==
    IF a.m = 0 THEN Float32(0, 0)
    ELSE TheOne({TheOne({
            Float32(RoundHalfEven(d.m, (2 * d.rem) \div s.q, (2 * d.rem) % s.q # 0),
                    s.e - (Float32Digits - 1)) :
                d \in {LongDivide(1, s.p - s.q, s.q, Float32Digits - 1)}}) :
                s \in {ScaleRatio(a.m, b.m, a.e - b.e)}})

\* int(x) of a float32 tensor element x >= 0: the fraction is dropped
IntOfFloat32(x) ==
    IF x.e >= 0 THEN x.m * 2^x.e
    ELSE IF -x.e >= Float32Digits THEN 0
    ELSE x.m \div 2^(-x.e)

\* math.ceil(x) of a float32 tensor element x >= 0
CeilOfFloat32(x) ==
    IF x.e >= 0 THEN x.m * 2^x.e
    ELSE IF -x.e >= Float32Digits THEN (IF x.m = 0 THEN 0 ELSE 1)
    ELSE (x.m + 2^(-x.e) - 1) \div 2^(-x.e)

\* torch type promotion between a tensor dtype and a scalar or tensor dtype
PromoteTypes(a, b) == IF a = "float" \/ b = "float" THEN "float" ELSE "long"

\* torch.as_tensor of a Python list of ints: an empty list gives a float tensor
AsTensor(list) ==
    [dtype |-> IF list = <<>> THEN "float" ELSE "long", data |-> list]

\* Tensor.long()
LongOf(t) ==
    [dtype |-> "long",
     data |-> [i \in 1..Len(t.data) |->
                 [k \in 1..Len(t.data[i]) |->
                     ConvertValue(t.data[i][k], t.dtype, "long")]]]

(***************************************************************************)
(* lhotse.dataset.collation.collate_vectors, as called on line 19: the     *)
(* result takes the dtype of the (first) longest item promoted with the    *)
(* padding scalar, is filled with padding_value, and row i receives item i *)
(* cast to that dtype.                                                     *)
(***************************************************************************)
LongestItem(items) ==
    CHOOSE i \in 1..Len(items) :
        /\ \A j \in 1..Len(items) : Len(items[j].data) <= Len(items[i].data)
        /\ \A j \in 1..(i - 1) : Len(items[j].data) < Len(items[i].data)

\* a seeded fault for C15: the positions after an item are not padding_value
collate_vectors_lhotse_unpadded(items, padding_value) ==
    LET longest == items[LongestItem(items)]
        dt == PromoteTypes(longest.dtype, padding_value.dtype)
        pad == ConvertValue(padding_value.v, padding_value.dtype, dt)
    IN  [dtype |-> dt,
         data |-> [i \in 1..Len(items) |->
                    [k \in 1..Len(longest.data) |->
                        IF k <= Len(items[i].data)
                        THEN ConvertValue(items[i].data[k], items[i].dtype, dt)
                        ELSE pad + 1]]]

collate_vectors_lhotse(items, padding_value) ==
    LET longest == items[LongestItem(items)]
        dt == PromoteTypes(longest.dtype, padding_value.dtype)
        pad == ConvertValue(padding_value.v, padding_value.dtype, dt)
    IN  [dtype |-> dt,
         data |-> [i \in 1..Len(items) |->
                    [k \in 1..Len(longest.data) |->
                        IF k <= Len(items[i].data)
                        THEN ConvertValue(items[i].data[k], items[i].dtype, dt)
                        ELSE pad]]]

\* a seeded fault for C16: the result is cast when any item is empty
collate_vectors_anyempty(items, max_length, padding_value) ==
    LET vectors == collate_vectors_lhotse(items, padding_value)
        size1 == Len(vectors.data[1])
        dt == PromoteTypes(vectors.dtype, padding_value.dtype)
        pad == ConvertValue(padding_value.v, padding_value.dtype, dt)
        widened ==
            [dtype |-> dt,
             data |-> [i \in 1..Len(items) |->
                        [k \in 1..Max2(max_length, size1) |->
                            IF k <= size1
                            THEN ConvertValue(vectors.data[i][k], vectors.dtype, dt)
                            ELSE pad]]]
    IN  IF \E i \in 1..Len(items) : Len(items[i].data) < 1
        THEN LongOf(widened) ELSE widened

\* a plausible slip: the result is never widened to max_length
collate_vectors_nowiden(items, max_length, padding_value) ==
    LET vectors == collate_vectors_lhotse(items, padding_value)
    IN  IF Len(items[1].data) < 1 THEN LongOf(vectors) ELSE vectors

\* collate_vectors(items, max_length, padding_value), lines 18-27
collate_vectors(items, max_length, padding_value) ==
    TheOne({
        LET size1 == Len(vectors.data[1])
            dt == PromoteTypes(vectors.dtype, padding_value.dtype)
            pad == ConvertValue(padding_value.v, padding_value.dtype, dt)
        IN  TheOne({IF Len(items[1].data) < 1 THEN LongOf(widened) ELSE widened :
                    widened \in
                        {IF max_length > size1
                         THEN [dtype |-> dt,
                               data |-> [i \in 1..Len(items) |->
                                          [k \in 1..size1 |->
                                              ConvertValue(vectors.data[i][k],
                                                           vectors.dtype, dt)]
                                          \o [k \in 1..(max_length - size1) |-> pad]]]
                         ELSE vectors}}) :
            vectors \in {collate_vectors_lhotse(items, padding_value)}})

(***************************************************************************)
(* Calls and their results.                                                *)
(***************************************************************************)
NoCall == [op |-> "none"]

NoRet == [status |-> "none"]

Raised(kind) == [status |-> "error", error |-> kind]

Returned(value) == [status |-> "ok", value |-> value]

(***************************************************************************)
(* collate_vectors on its own: the inputs.                                 *)
(***************************************************************************)
\* 16777217 = 2^24 + 1 is the first integer float32 cannot hold
LongValues == {7, 16777217}

FloatValues == {-3}         \* -1.5

ValuesOf(dt) == IF dt = "float" THEN FloatValues ELSE LongValues

SeqsUpTo(S, n) == UNION {[1..k -> S] : k \in 0..n}

\* items of one dtype; the empty float item is the tensor
\* torch.as_tensor([]) makes
ItemsOf(dt) ==
    {[dtype |-> dt, data |-> d] : d \in SeqsUpTo(ValuesOf(dt), MaxItemLen)}

\* the items of one list may differ in dtype
ItemLists ==
    UNION {[1..n -> ItemsOf("long") \cup ItemsOf("float")] : n \in 1..MaxItems}

\* -1, 16777217, 0.5 and 8388608.5 (a Python float, which float32 cannot hold)
PaddingValues ==
    {[dtype |-> "long", v |-> -1], [dtype |-> "long", v |-> 16777217],
     [dtype |-> "float", v |-> 1], [dtype |-> "float", v |-> 16777217]}

DefaultDataset == [constructed |-> FALSE]

\* no task, executor or environment: the plugins are not in use
NoRun ==
    /\ task = [kind |-> "none"]
    /\ executor = [kind |-> "none"]
    /\ environ = {}
    /\ callbacks0 = [exists |-> FALSE, list |-> <<>>]

InitVectors ==
    /\ dataset = DefaultDataset
    /\ call = NoCall
    /\ ret = NoRet
    /\ NoRun

CollateVectors ==
    /\ call = NoCall
    /\ \E items \in ItemLists, max_length \in 0..(MaxItemLen + 1),
          padding_value \in PaddingValues :
        /\ call' = [op |-> "collate_vectors", items |-> items,
                    max_length |-> max_length, padding_value |-> padding_value]
        /\ ret' = Returned(collate_vectors(items, max_length, padding_value))
    /\ UNCHANGED <<dataset, run>>

\* the caller takes the result; the next call can be made
Return ==
    /\ call # NoCall
    /\ call' = NoCall
    /\ ret' = NoRet
    /\ UNCHANGED <<dataset, run>>

NextVectors == CollateVectors \/ Return

SpecVectors == InitVectors /\ [][NextVectors]_vars

(***************************************************************************)
(* LhotseAudioQuestionAnswerDataset.                                       *)
(*                                                                         *)
(* A cut is a record                                                       *)
(*   spk1, spk2  the speakers of supervisions[0] and supervisions[1]       *)
(*   flags       the mode attributes set on the cut (s2s, s2s_align,       *)
(*               direct_s2s, s2t)                                          *)
(*   instr       the ids the tokenizer gives supervisions[0].text          *)
(*   words       supervisions[1].text as its words, each with the start    *)
(*               time token in front of it and the ids the tokenizer gives *)
(*               the word on its own                                       *)
(*   answer_len  the number of samples of target_audio                     *)
(*   audio       the waveform at sample_rate (a float vector in halves)    *)
(* A 3-D tensor [batch, time, 1 + K] is a sequence of examples, each a     *)
(* sequence of rows <<text, speech_1 .. speech_K>>.                        *)
(***************************************************************************)
\* ids of the text processor (text_processor.pad_id, unk_id, bos_id, eos_id)
TextPadId == 0
TextUnkId == 1
TextBosId == 2
TextEosId == 3

\* __init__ defaults
SpeechPadId == 1001
SpeechUnkId == 1002
SpeechBosId == 1003
SpeechEosId == 1004
SampleRate == 22050
\* codec_model_downsampling_factor = 1023.5, counted in halves
CodecDownsamplingHalves == 2047

Modes == {"s2s", "s2s_align", "direct_s2s", "s2t"}

\* getattr(cut, mode, False)
HasFlag(cut, mode) == mode \in cut.flags

\* the number of speech columns: n_speech_codebooks * decoder_reduction_factor
SpeechColumns(self) == self.n_speech_codebooks * self.decoder_reduction_factor

Row(K, text_id, speech_id) == <<text_id>> \o [k \in 1..K |-> speech_id]

\* python slicing s[:n] and s[n:] (n >= 0)
Take(s, n) == SubSeq(s, 1, Min2(n, Len(s)))

Drop(s, n) == SubSeq(s, n + 1, Len(s))

RECURSIVE Concat(_)
Concat(ss) == IF ss = <<>> THEN <<>> ELSE Head(ss) \o Concat(Tail(ss))

\* ceil_to_nearest(n, m) of parts/utils/data_utils.py
ceil_to_nearest(n, m) == ((n + m - 1) \div m) * m

\* TextProcessing._process_example(context, output): every id list ends with
\* the end-of-sequence id
ProcessExample(context, output) ==
    [input_ids |-> context \o output \o <<TextEosId>>,
     context_ids |-> context \o <<TextEosId>>,
     answer_ids |-> output \o <<TextEosId>>]

\* CutSet.sort_by_duration(): longest first, equal durations in their order
Duration(cut) == Len(cut.audio)

RECURSIVE InsertByDuration(_, _)
InsertByDuration(sorted, cut) ==
    IF sorted = <<>> THEN <<cut>>
    ELSE IF Duration(Head(sorted)) >= Duration(cut)
         THEN <<Head(sorted)>> \o InsertByDuration(Tail(sorted), cut)
         ELSE <<cut>> \o sorted

RECURSIVE sort_by_duration(_)
sort_by_duration(cuts) ==
    IF cuts = <<>> THEN <<>>
    ELSE InsertByDuration(sort_by_duration(SubSeq(cuts, 1, Len(cuts) - 1)),
                          cuts[Len(cuts)])

\* a seeded fault for C6: the speakers of the last cut alone are checked
FirstBadSpeakerOfLast(cuts) ==
    IF cuts[Len(cuts)].spk1 # "user" \/ cuts[Len(cuts)].spk2 # "agent"
    THEN Len(cuts) ELSE 0

\* the index of the first cut the tokenization loop raises on, 0 if none
FirstBadSpeaker(cuts) ==
    LET bad == {i \in 1..Len(cuts) : cuts[i].spk1 # "user" \/ cuts[i].spk2 # "agent"}
    IN  IF bad = {} THEN 0 ELSE CHOOSE i \in bad : \A j \in bad : i <= j

\* the instruction ids of a cut: input_ids[:-1]
InstructionOf(cut) ==
    LET ids == ProcessExample(cut.instr, <<>>).input_ids
    IN  Take(ids, Len(ids) - 1)

\* the text of supervisions[1] with its time tokens removed, tokenized whole
SentenceIds(cut) == Concat([w \in 1..Len(cut.words) |-> cut.words[w].toks])

\* extract_text_and_time_tokens: each word tokenized on its own, the
\* end-of-sequence id removed and, but for the first word, the first id too
WordIds(cut, w) ==
    LET ids == ProcessExample(<<>>, cut.words[w].toks).answer_ids
        token_ids == Take(ids, Len(ids) - 1)
    IN  IF w # 1 THEN Drop(token_ids, 1) ELSE token_ids

extract_text_and_time_tokens(cut) ==
    [tokenized_words |-> Concat([w \in 1..Len(cut.words) |-> WordIds(cut, w)]),
     start_time_token |-> [w \in 1..Len(cut.words) |-> cut.words[w].start],
     word_length |-> [w \in 1..Len(cut.words) |-> Len(WordIds(cut, w))]]

\* the target text ids of a cut, lines 223-237
TargetTextOf(cut) ==
    IF ~HasFlag(cut, "s2s_align")
    THEN LET ids == ProcessExample(<<>>, SentenceIds(cut)).answer_ids
         IN  Take(ids, Len(ids) - 1)
    ELSE extract_text_and_time_tokens(cut).tokenized_words

\* get_3d_empty_tensor(batch_size, length, text_fill_id, speech_fill_id)
get_3d_empty_tensor(self, batch_size, length, text_fill_id, speech_fill_id) ==
    [i \in 1..batch_size |->
        [t \in 1..length |-> Row(SpeechColumns(self), text_fill_id, speech_fill_id)]]

\* collate_and_pad on 1-D inputs: pad to max_seq_length or to the batch's own
\* maximum rounded up to a multiple of 8
collate_and_pad_1d(self, inputs) ==
    LET token_lengths == [i \in 1..Len(inputs) |-> Len(inputs[i].data)]
        longest == SetMax(Range(token_lengths))
        max_length ==
            IF self.pad_to_max_length THEN self.max_seq_length
            ELSE Min2(self.max_seq_length, ceil_to_nearest(longest, 8))
    IN  [tokens |-> collate_vectors(inputs, max_length,
                                    [dtype |-> "long", v |-> TextPadId]).data,
         token_lengths |-> token_lengths]

\* collate_and_pad on 2-D inputs (one [time, 1 + K] tensor per example): pad
\* with (text_pad_id, speech_pad_id) rows to the longest example
collate_and_pad_2d(self, inputs) ==
    LET token_lengths == [i \in 1..Len(inputs) |-> Len(inputs[i])]
        max_length == SetMax(Range(token_lengths))
        empty == get_3d_empty_tensor(self, Len(inputs), max_length,
                                     TextPadId, SpeechPadId)
    IN  [tokens |-> [i \in 1..Len(inputs) |->
                        [t \in 1..max_length |->
                            IF t <= token_lengths[i] THEN inputs[i][t]
                            ELSE empty[i][t]]],
         token_lengths |-> token_lengths]

\* a seeded fault: the end-marker row is written one row late
convert_text_to_3d_tensor_late(self, texts, include_eos, tokens_to_generate) ==
    LET padded == collate_and_pad_1d(self, texts)
        K == SpeechColumns(self)
        length == Len(padded.tokens[1]) + 1 + tokens_to_generate
        empty == get_3d_empty_tensor(self, Len(texts), length, TextPadId, SpeechPadId)
        expanded ==
            [i \in 1..Len(texts) |->
                [t \in 1..length |->
                    IF t <= padded.token_lengths[i]
                    THEN Row(K, padded.tokens[i][t], SpeechUnkId)
                    ELSE IF t = Min2(padded.token_lengths[i] + 2, length)
                         THEN Row(K, TextEosId, SpeechBosId)
                         ELSE empty[i][t]]]
    IN  [texts |-> padded.tokens,
         text_lengths |-> padded.token_lengths,
         texts_expanded |->
            IF include_eos THEN expanded
            ELSE [i \in 1..Len(texts) |-> Take(expanded[i], length - 1)]]

\* _convert_text_to_3d_tensor(texts, include_eos, tokens_to_generate)
convert_text_to_3d_tensor(self, texts, include_eos, tokens_to_generate) ==
    LET padded == collate_and_pad_1d(self, texts)
        K == SpeechColumns(self)
        length == Len(padded.tokens[1]) + 1 + tokens_to_generate
        empty == get_3d_empty_tensor(self, Len(texts), length, TextPadId, SpeechPadId)
        expanded ==
            [i \in 1..Len(texts) |->
                [t \in 1..length |->
                    IF t <= padded.token_lengths[i]
                    THEN Row(K, padded.tokens[i][t], SpeechUnkId)
                    ELSE IF t = padded.token_lengths[i] + 1
                         THEN Row(K, TextEosId, SpeechBosId)
                         ELSE empty[i][t]]]
    IN  [texts |-> padded.tokens,
         text_lengths |-> padded.token_lengths,
         texts_expanded |->
            IF include_eos THEN expanded
            ELSE [i \in 1..Len(texts) |-> Take(expanded[i], length - 1)]]

\* features_lens of one cut: math.ceil(answer_audio_len / codec_model_downsampling_factor),
\* answer_audio_len being an element of a long tensor and the factor a Python
\* float: both become float32 and the division is a float32 division
FeaturesLen(self, cut) ==
    TheOne({TheOne({CeilOfFloat32(quotient) :
                        quotient \in {Float32Div(answer_audio_len, factor)}}) :
                answer_audio_len \in {AsFloat32(cut.answer_len)},
                factor \in {Float32OfRatio(self.codec_downsampling_halves, 2)}})

\* a seeded fault for C9: the codec rows are not closed by a speech-eos row
TargetCodecUnended(self, features_lens) ==
    LET K == SpeechColumns(self)
        length == SetMax(Range(features_lens)) + 1
    IN  [i \in 1..Len(features_lens) |->
            [t \in 1..length |->
                IF t <= features_lens[i] THEN Row(K, TextUnkId, SpeechPadId - 1)
                ELSE Row(K, TextPadId, SpeechPadId)]]

\* the dummy target_codec of lines 353-363: per example features_lens rows
\* (text_unk_id, speech_pad_id - 1), one (text_unk_id, speech_eos_id) row, and
\* (text_pad_id, speech_pad_id) rows up to max(features_lens) + 1
TargetCodec(self, features_lens) ==
    LET K == SpeechColumns(self)
        length == SetMax(Range(features_lens)) + 1
        empty == get_3d_empty_tensor(self, Len(features_lens), length,
                                     TextPadId, SpeechPadId)
    IN  [i \in 1..Len(features_lens) |->
            [t \in 1..length |->
                IF t <= features_lens[i] THEN Row(K, TextUnkId, SpeechPadId - 1)
                ELSE IF t = features_lens[i] + 1 THEN Row(K, TextUnkId, SpeechEosId)
                ELSE empty[i][t]]]

\* token_list = [concat(it[:itl], tt)] unless t5_style
WithInstructions(self, token_list, instructions_expanded_no_eos, instruction_lengths) ==
    IF ~self.t5_style
    THEN [i \in 1..Len(token_list) |->
            Take(instructions_expanded_no_eos[i], instruction_lengths[i])
                \o token_list[i]]
    ELSE token_list

\* a seeded fault for C3: the instruction rows keep their mask
MaskInstructionsSkipped(self, mask, instruction_lengths) == mask

\* for itl in instruction_lengths: mask[:, :itl, :] = False   (unless t5_style)
MaskInstructions(self, mask, instruction_lengths) ==
    IF ~self.t5_style
    THEN [i \in 1..Len(mask) |->
            [t \in 1..Len(mask[i]) |->
                [c \in 1..Len(mask[i][t]) |->
                    /\ mask[i][t][c]
                    /\ ~\E j \in 1..Len(instruction_lengths) :
                            t <= instruction_lengths[j]]]]
    ELSE mask

\* tokens[:, :, 0:1] != text_pad_id
TextLossMask(tokens) ==
    [i \in 1..Len(tokens) |->
        [t \in 1..Len(tokens[i]) |-> <<tokens[i][t][1] # TextPadId>>]]

\* tokens[:, :, 1:] != speech_pad_id
SpeechLossMask(tokens) ==
    [i \in 1..Len(tokens) |->
        [t \in 1..Len(tokens[i]) |->
            [k \in 1..(Len(tokens[i][t]) - 1) |-> tokens[i][t][k + 1] # SpeechPadId]]]

\* torch.cat([a, b], 2) succeeds only when a and b agree on the batch and
\* time dimensions
CanCat2(a, b) ==
    /\ Len(a) = Len(b)
    /\ \A i \in 1..Len(a) : Len(a[i]) = Len(b[i])

Cat2(a, b) ==
    [i \in 1..Len(a) |-> [t \in 1..Len(a[i]) |-> a[i][t] \o b[i][t]]]

Assembled(tokens, loss_mask, full_lengths, target_text_lengths, target_texts_expanded) ==
    [status |-> "ok", tokens |-> tokens, loss_mask |-> loss_mask,
     full_lengths |-> full_lengths, target_text_lengths |-> target_text_lengths,
     target_texts_expanded |-> target_texts_expanded]

\* the s2s branch, lines 395-417
AssembleS2S(self, p) ==
    LET tt == p.tt
        it == p.it
        features_lens == p.features_lens
        target_codec == p.target_codec
        B == Len(features_lens)
        token_list ==
            WithInstructions(self,
                [i \in 1..B |->
                    Take(tt.texts_expanded[i], tt.text_lengths[i] + 1)
                        \o Take(target_codec[i], features_lens[i] + 1)],
                it.texts_expanded, it.text_lengths)
        tokens == collate_and_pad_2d(self, token_list).tokens
        speech_loss_mask ==
            MaskInstructions(self, SpeechLossMask(tokens), it.text_lengths)
        text_loss_mask ==
            MaskInstructions(self, TextLossMask(tokens), it.text_lengths)
    IN  Assembled(tokens, Cat2(text_loss_mask, speech_loss_mask),
                  [i \in 1..B |->
                      tt.text_lengths[i] + 1 + features_lens[i] + 1 + it.text_lengths[i]],
                  tt.text_lengths, tt.texts_expanded)

\* discretize_time(start_token, speech_resolution = frame_rate) with
\* frame_rate = codec_model_downsampling_factor / sample_rate (a Python
\* float) and the default timestamp_resolution 0.08, then the division by
\* decoder_reduction_factor:
\* int(int(start_token * 0.08 / frame_rate) / decoder_reduction_factor).
\* start_token is an element of a long tensor, so the product and the
\* quotient are float32; the last division is of Python ints.  Each
\* intermediate value is the one element of a set.
StartTimeIndex(self, start_token) ==
    TheOne({TheOne({TheOne({
        IntOfFloat32(quotient) \div self.decoder_reduction_factor :
            quotient \in {Float32Div(scaled, speech_resolution)}}) :
            scaled \in {Float32Mul(token, timestamp_resolution)}}) :
            token \in {AsFloat32(start_token)},
            timestamp_resolution \in {Float32OfRatio(8, 100)},
            speech_resolution \in
                {Float32OfRatio(self.codec_downsampling_halves, 2 * self.sample_rate)}})

\* a seeded fault for C11: a frame keeps the first word written to it
RECURSIVE WriteWordsOnce(_, _, _, _, _, _, _)
WriteWordsOnce(self, row, word_tokens, word_lengths, start_time_tokens, word_idx, word_start_idx) ==
    IF word_idx > Len(word_lengths) THEN row
    ELSE LET word_length == word_lengths[word_idx]
             start_time_index == StartTimeIndex(self, start_time_tokens[word_idx])
             end_time_index == Min2(start_time_index + word_length, Len(row))
             word_token_ids ==
                 SubSeq(word_tokens, word_start_idx + 1,
                        Min2(word_start_idx + word_length, Len(word_tokens)))
             written ==
                 [t \in 1..Len(row) |->
                     IF /\ start_time_index <= t - 1
                        /\ t - 1 < end_time_index
                        /\ t - 1 - start_time_index < Len(word_token_ids)
                        /\ row[t] = TextUnkId
                     THEN word_token_ids[t - start_time_index]
                     ELSE row[t]]
         IN  WriteWordsOnce(self, written, word_tokens, word_lengths, start_time_tokens,
                            word_idx + 1, word_start_idx + word_length)

\* the words loop of _expand_text_with_timestamps_and_word_lengths for one
\* example: word word_idx onward written into row (frames are 0-based in the
\* code, rows 1-based here)
RECURSIVE WriteWords(_, _, _, _, _, _, _)
WriteWords(self, row, word_tokens, word_lengths, start_time_tokens, word_idx, word_start_idx) ==
    IF word_idx > Len(word_lengths) THEN row
    ELSE LET word_length == word_lengths[word_idx]
             start_time_index == StartTimeIndex(self, start_time_tokens[word_idx])
             end_time_index == Min2(start_time_index + word_length, Len(row))
             word_token_ids ==
                 SubSeq(word_tokens, word_start_idx + 1,
                        Min2(word_start_idx + word_length, Len(word_tokens)))
             written ==
                 [t \in 1..Len(row) |->
                     IF /\ start_time_index <= t - 1
                        /\ t - 1 < end_time_index
                        /\ t - 1 - start_time_index < Len(word_token_ids)
                     THEN word_token_ids[t - start_time_index]
                     ELSE row[t]]
         IN  WriteWords(self, written, word_tokens, word_lengths, start_time_tokens,
                        word_idx + 1, word_start_idx + word_length)

\* _expand_text_with_timestamps_and_word_lengths(word_tokens, word_lengths,
\* start_time_tokens, features_lens, frame_rate, pad_id), lines 142-203
expand_text_with_timestamps_and_word_lengths(self, word_tokens, word_lengths, start_time_tokens, features_lens, pad_id) ==
    LET max_length == SetMax(Range(features_lens))
    IN  [i \in 1..Len(word_tokens) |->
            LET batch_max_length == features_lens[i] - 1
                filled == WriteWords(self, [t \in 1..max_length |-> pad_id],
                                     word_tokens[i], word_lengths[i],
                                     start_time_tokens[i], 1, 0)
            IN  [t \in 1..max_length |->
                    IF t - 1 >= batch_max_length THEN TextPadId ELSE filled[t]]]

\* the s2s_align branch, lines 419-454; word_lengths and start_time_tokens
\* hold one entry per cut that carries s2s_align
AssembleS2SAlign(self, cuts, p) ==
    LET unpadded_target_texts == p.unpadded_target_texts
        tt == p.tt
        it == p.it
        features_lens == p.features_lens
        target_codec == p.target_codec
        B == Len(cuts)
        K == SpeechColumns(self)
        timed == SelectSeq(cuts, LAMBDA c : HasFlag(c, "s2s_align"))
        word_lengths ==
            [j \in 1..Len(timed) |-> extract_text_and_time_tokens(timed[j]).word_length]
        start_time_tokens ==
            [j \in 1..Len(timed) |-> extract_text_and_time_tokens(timed[j]).start_time_token]
    IN  IF Len(word_lengths) < B THEN Raised("IndexError")
        ELSE
        LET target_texts_expanded ==
                expand_text_with_timestamps_and_word_lengths(self,
                    unpadded_target_texts, word_lengths, start_time_tokens,
                    [i \in 1..B |-> features_lens[i] + 1], TextUnkId)
            codec ==
                [i \in 1..B |->
                    [t \in 1..Len(target_codec[i]) |->
                        <<target_texts_expanded[i][t]>> \o Drop(target_codec[i][t], 1)]]
            token_list ==
                WithInstructions(self,
                    [i \in 1..B |-> <<Row(K, TextBosId, SpeechBosId)>> \o codec[i]],
                    it.texts_expanded, it.text_lengths)
            tokens == collate_and_pad_2d(self, token_list).tokens
            speech_loss_mask == SpeechLossMask(tokens)
            loss_mask ==
                [i \in 1..B |->
                    [t \in 1..Len(tokens[i]) |->
                        Take(speech_loss_mask[i][t], 1) \o speech_loss_mask[i][t]]]
        IN  Assembled(tokens, MaskInstructions(self, loss_mask, it.text_lengths),
                      [i \in 1..B |-> (features_lens[i] + 1) + 1 + it.text_lengths[i]],
                      [i \in 1..B |-> -1],
                      target_texts_expanded)

\* the direct_s2s branch, lines 455-476; instruction_length is the value the
\* tokenization loop left behind, the last cut's
AssembleDirectS2S(self, p) ==
    LET tt == p.tt
        it == p.it
        features_lens == p.features_lens
        target_codec == p.target_codec
        B == Len(features_lens)
        instruction_length == it.text_lengths[B]
        token_list ==
            WithInstructions(self,
                [i \in 1..B |->
                    Take(tt.texts_expanded[i], 1)
                        \o Take(target_codec[i], features_lens[i] + 1)],
                it.texts_expanded, it.text_lengths)
        tokens == collate_and_pad_2d(self, token_list).tokens
        speech_loss_mask ==
            MaskInstructions(self, SpeechLossMask(tokens), it.text_lengths)
        text_loss_mask ==
            MaskInstructions(self, TextLossMask(tokens), it.text_lengths)
    IN  Assembled(tokens, Cat2(text_loss_mask, speech_loss_mask),
                  [i \in 1..B |-> 1 + features_lens[i] + 1 + instruction_length],
                  tt.text_lengths, tt.texts_expanded)

\* the s2t branch, lines 477-494: speech_loss_mask is
\* torch.zeros(tokens.shape[0], tokens.shape[1] - 1, tokens.shape[2])
AssembleS2T(self, p) ==
    LET tt == p.tt
        it == p.it
        B == Len(tt.text_lengths)
        instruction_length == it.text_lengths[B]
        token_list ==
            WithInstructions(self,
                [i \in 1..B |-> Take(tt.texts_expanded[i], tt.text_lengths[i] + 1)],
                it.texts_expanded, it.text_lengths)
        tokens == collate_and_pad_2d(self, token_list).tokens
        zeros ==
            [i \in 1..B |->
                [t \in 1..(Len(tokens[i]) - 1) |->
                    [c \in 1..Len(tokens[i][1]) |-> FALSE]]]
        speech_loss_mask == MaskInstructions(self, zeros, it.text_lengths)
        text_loss_mask ==
            MaskInstructions(self, TextLossMask(tokens), it.text_lengths)
    IN  IF ~CanCat2(text_loss_mask, speech_loss_mask) THEN Raised("RuntimeError")
        ELSE Assembled(tokens, Cat2(text_loss_mask, speech_loss_mask),
                       [i \in 1..B |-> tt.text_lengths[i] + 1 + instruction_length],
                       tt.text_lengths, tt.texts_expanded)

\* the mode dispatch of lines 395-494, on the attributes of the last cut
Assemble(self, cuts, p) ==
    LET cut == cuts[Len(cuts)]
    IN  IF HasFlag(cut, "s2s") THEN AssembleS2S(self, p)
        ELSE IF HasFlag(cut, "s2s_align") THEN AssembleS2SAlign(self, cuts, p)
        ELSE IF HasFlag(cut, "direct_s2s") THEN AssembleDirectS2S(self, p)
        ELSE IF HasFlag(cut, "s2t") THEN AssembleS2T(self, p)
        ELSE Raised("UnboundLocalError")

\* a seeded fault for C8: the assertion of line 308 is dropped
EarlyErrorUnasserted(self, cuts) ==
    LET bad == FirstBadSpeaker(cuts)
    IN  IF bad # 0
        THEN (IF cuts[bad].spk1 # "user" THEN "First speaker should be user"
              ELSE "Second speaker should be agent")
        ELSE IF self.load_answer_audio /\ HasFlag(cuts[Len(cuts)], "direct_s2s")
        THEN "AssertionError: direct_s2s not supported when load_answer_audio is True"
        ELSE IF self.decoder_reduction_factor # 1
        THEN "AssertionError: TODO: add the support in on the fly"
        ELSE ""

\* what __getitem__ raises before it assembles anything, "" if nothing: the
\* speaker checks of the tokenization loop (lines 212-239), then the
\* assertions of lines 308, 333 and 334 (cut is the last cut there)
EarlyError(self, cuts) ==
    LET bad == FirstBadSpeaker(cuts)
    IN  IF bad # 0
        THEN (IF cuts[bad].spk1 # "user" THEN "First speaker should be user"
              ELSE "Second speaker should be agent")
        ELSE IF ~self.load_answer_audio
        THEN "AssertionError"
        ELSE IF HasFlag(cuts[Len(cuts)], "direct_s2s")
        THEN "AssertionError: direct_s2s not supported when load_answer_audio is True"
        ELSE IF self.decoder_reduction_factor # 1
        THEN "AssertionError: TODO: add the support in on the fly"
        ELSE ""

\* what lines 207-390 compute from the sorted cuts: the padded waveforms, the
\* answer lengths and dummy codec, the padded and expanded texts
Prepare(self, cuts) ==
    LET B == Len(cuts)
        audio_lens == [i \in 1..B |-> Len(cuts[i].audio)]
        features_lens == [i \in 1..B |-> FeaturesLen(self, cuts[i])]
    IN  [audio_lens |-> audio_lens,
         audio |-> collate_vectors(
                      [i \in 1..B |-> [dtype |-> "float", data |-> cuts[i].audio]],
                      SetMax(Range(audio_lens)), [dtype |-> "float", v |-> 0]).data,
         unpadded_target_texts |-> [i \in 1..B |-> TargetTextOf(cuts[i])],
         answer_audio_lens |-> [i \in 1..B |-> cuts[i].answer_len],
         features_lens |-> features_lens,
         target_codec |-> TargetCodec(self, features_lens),
         tt |-> convert_text_to_3d_tensor(self,
                    [i \in 1..B |-> AsTensor(TargetTextOf(cuts[i]))], TRUE, 0),
         it |-> convert_text_to_3d_tensor(self,
                    [i \in 1..B |-> AsTensor(InstructionOf(cuts[i]))], FALSE,
                    self.tokens_to_generate)]

\* a seeded fault for C2: labels are cut like tokens, not shifted
LabelsUnshifted(tokens) ==
    [i \in 1..Len(tokens) |-> Take(tokens[i], Len(tokens[i]) - 1)]

\* "labels": tokens[:, 1:, :]
Labels(tokens) ==
    [i \in 1..Len(tokens) |-> Drop(tokens[i], 1)]

\* the clamp, the trim and the batch of lines 495-526, or the error the mode
\* branch ended in
ReturnBatch(p, a) ==
    IF a.status = "error" THEN a
    ELSE
    LET T == Len(a.tokens[1])
        B == Len(a.tokens)
        full_lengths == [i \in 1..B |-> Min2(a.full_lengths[i], T)]
    IN  Returned(
        [audio_signal |-> p.audio,
         audio_signal_length |-> p.audio_lens,
         instructions |-> p.it.texts,
         target_texts_expanded |-> a.target_texts_expanded,
         contexts |-> p.it.texts_expanded,
         context_lengths |-> p.it.text_lengths,
         tokens |-> [i \in 1..B |-> Take(a.tokens[i], T - 1)],
         tokens_length |-> [i \in 1..B |-> full_lengths[i] - 1],
         labels |-> Labels(a.tokens),
         loss_mask |-> [i \in 1..B |-> Drop(a.loss_mask[i], 1)],
         target_texts |-> p.tt.texts,
         target_text_lengths |-> a.target_text_lengths,
         answers |-> Labels(a.tokens),
         answer_audio_lens |-> p.answer_audio_lens])

\* build_loss_mask(processed_example) of parts/utils/data_utils.py: the loss
\* counts on the answer only, one entry per input id
build_loss_mask(example) ==
    [idx \in 1..Len(example.input_ids) |->
        IF idx - 1 >= Len(example.context_ids) THEN 1 ELSE 0]

\* collate_text_data(cuts, default_context, text_processor, tokens_to_generate,
\* pad_to_max_length, max_seq_length), lines 529-582
collate_text_data(cuts, tokens_to_generate, pad_to_max_length, max_seq_length) ==
    LET batch_size == Len(cuts)
        examples == [i \in 1..batch_size |-> ProcessExample(cuts[i].context, cuts[i].text)]
        get_max_len(field) == SetMax({Len(examples[i][field]) : i \in 1..batch_size})
        longest == tokens_to_generate
                    + Max2(get_max_len("input_ids"),
                           Max2(get_max_len("context_ids"), get_max_len("answer_ids")))
        max_length ==
            IF pad_to_max_length THEN max_seq_length
            ELSE Min2(max_seq_length, ceil_to_nearest(longest, 8))
        pad == [dtype |-> "long", v |-> TextPadId]
        collate(field) ==
            collate_vectors([i \in 1..batch_size |-> AsTensor(examples[i][field])],
                            max_length, pad).data
        all_tokens == collate("input_ids")
        loss_mask ==
            collate_vectors([i \in 1..batch_size |-> AsTensor(build_loss_mask(examples[i]))],
                            max_length, [dtype |-> "long", v |-> 0]).data
    IN  IF ~(max_length <= max_seq_length) THEN Raised("AssertionError")
        ELSE Returned(
            [tokens |-> [i \in 1..batch_size |->
                            Take(all_tokens[i], Len(all_tokens[i]) - 1)],
             tokens_length |-> [i \in 1..batch_size |-> Len(examples[i].input_ids) - 1],
             labels |-> [i \in 1..batch_size |-> Drop(all_tokens[i], 1)],
             loss_mask |-> [i \in 1..batch_size |-> Drop(loss_mask[i], 1)],
             position_ids |-> [i \in 1..batch_size |-> [k \in 1..max_length |-> k - 1]],
             contexts |-> collate("context_ids"),
             context_lengths |-> [i \in 1..batch_size |-> Len(examples[i].context_ids)],
             answers |-> collate("answer_ids"),
             max_length |-> [i \in 1..batch_size |-> max_length]])

(***************************************************************************)
(* The datasets and the requests of the model.                             *)
(***************************************************************************)
MaxTotal == 6       \* a batch: samples + instruction ids + words + codec frames
MaxMixed == 2       \* cuts of a batch with mixed mode flags or speakers
MaxTextTotal == 5   \* collate_text_data: cuts + context ids + text ids
MaxSeqLength == 4   \* max_seq_length of the datasets
TokensToGenerate == 1
NumCodebooks == 1   \* n_speech_codebooks = len(vocab_sizes) - 1

Datasets ==
    [t5_style : BOOLEAN,
     load_answer_audio : BOOLEAN,
     pad_to_max_length : BOOLEAN,
     decoder_reduction_factor : {1, 2},
     max_seq_length : {MaxSeqLength},
     tokens_to_generate : {TokensToGenerate},
     n_speech_codebooks : {NumCodebooks},
     sample_rate : {SampleRate},
     codec_downsampling_halves : {CodecDownsamplingHalves}]

\* n instruction ids
InstrIds(n) == [k \in 1..n |-> 10 + k]

\* n words; on its own the first word is one id, a later word the
\* word-boundary id 20 and one id; word j starts at time token j - 1
WordsOf(n) ==
    [j \in 1..n |->
        [start |-> j - 1, toks |-> IF j = 1 THEN <<21>> ELSE <<20, 20 + j>>]]

\* a waveform of n samples (each 0.5)
Waveform(n) == [k \in 1..n |-> 1]

MakeCut(flags, spk1, spk2, ni, nw, nf, dur) ==
    [spk1 |-> spk1, spk2 |-> spk2, flags |-> flags,
     instr |-> InstrIds(ni), words |-> WordsOf(nw),
     answer_len |-> nf * ((CodecDownsamplingHalves - 1) \div 2),
     audio |-> Waveform(dur)]

\* the shape of a cut: <<instruction ids, words, codec frames, samples>>; its
\* size is their sum
ShapeSize(q) == q[1] + q[2] + q[3] + q[4]

ShapesUpTo(n) ==
    {q \in (0..n) \X (0..n) \X (0..n) \X (1..n) : ShapeSize(q) <= n}

\* the sequences (possibly empty) of shapes of total size at most n
RECURSIVE ShapeBatches(_)
ShapeBatches(n) ==
    {<<>>} \cup
    UNION {{<<q>> \o qs : qs \in ShapeBatches(n - ShapeSize(q))} :
              q \in ShapesUpTo(n)}

RegularShapes == ShapeBatches(MaxTotal) \ {<<>>}

RegularModes == {"s2s", "s2s_align", "s2t"}

\* a batch of one mode, speakers in order, its cuts of the given shapes
RegularRequest(mode, qs) ==
    [i \in 1..Len(qs) |->
        MakeCut({mode}, "user", "agent", qs[i][1], qs[i][2], qs[i][3], qs[i][4])]

\* cuts of one shape with any mode flags, and cuts with a wrong speaker
MixedCuts ==
    {MakeCut(flags, "user", "agent", 1, 1, 1, dur) :
        flags \in {{}, {"s2s"}, {"s2s_align"}, {"direct_s2s"}, {"s2t"}, {"s2s", "s2t"}},
        dur \in 1..2}
    \cup {MakeCut({"s2s"}, "agent", "agent", 1, 1, 1, 1),
          MakeCut({"s2s"}, "user", "user", 1, 1, 1, 1)}

MixedRequests == UNION {[1..n -> MixedCuts] : n \in 1..MaxMixed}

\* every dataset is tried on the mixed batches; the datasets that can return
\* a batch are tried on every shape
TriesEveryShape(self) ==
    /\ self.load_answer_audio
    /\ self.decoder_reduction_factor = 1
    /\ ~self.pad_to_max_length

TextCuts(n) ==
    {[context |-> InstrIds(q[1]), text |-> [k \in 1..q[2] |-> 30 + k]] :
        q \in {q \in (0..n) \X (0..n) : 1 + q[1] + q[2] <= n}}

RECURSIVE TextBatches(_)
TextBatches(n) ==
    {<<>>} \cup
    UNION {{<<c>> \o b :
                b \in TextBatches(n - 1 - Len(c.context) - Len(c.text))} :
              c \in TextCuts(n)}

TextRequests == TextBatches(MaxTextTotal) \ {<<>>}

\* s2s_align cuts whose words have one or two ids and start at any time
\* token, so that words may overlap in time or start past the last frame
MaxAlignFrames == 3

StartTokens == 0..(MaxAlignFrames - 1)

\* the first word on its own is one or two ids; a later word is the
\* word-boundary id 20 and one or two ids
FirstWords == {[start |-> st, toks |-> tk] : st \in StartTokens, tk \in {<<21>>, <<21, 22>>}}

LaterWords == {[start |-> st, toks |-> tk] : st \in StartTokens, tk \in {<<20, 23>>, <<20, 23, 24>>}}

AlignedWords ==
    {<<>>} \cup {<<w>> : w \in FirstWords}
    \cup {ws \in FirstWords \X LaterWords : ws[2].start >= ws[1].start}

AlignedCut(ni, words, nf) ==
    [spk1 |-> "user", spk2 |-> "agent", flags |-> {"s2s_align"},
     instr |-> InstrIds(ni), words |-> words,
     answer_len |-> nf * ((CodecDownsamplingHalves - 1) \div 2),
     audio |-> Waveform(1)]

AlignedCuts ==
    {AlignedCut(ni, words, nf) :
        ni \in 0..1, words \in AlignedWords, nf \in 0..MaxAlignFrames}

\* one such cut, alone or followed by a cut without words
AlignedRequests ==
    {<<c>> : c \in AlignedCuts}
    \cup {<<c, AlignedCut(ni, <<>>, MaxAlignFrames * ni)>> : c \in AlignedCuts, ni \in 0..1}

(***************************************************************************)
(* The dataset as a state machine: constructed, then serving one call at a *)
(* time.                                                                   *)
(***************************************************************************)
Init ==
    /\ dataset \in Datasets
    /\ call = NoCall
    /\ ret = NoRet
    /\ NoRun

\* LhotseAudioQuestionAnswerDataset.__getitem__(cuts), lines 107-526: the
\* cuts sorted, the early errors, the preparation, the mode branch and the
\* batch; every intermediate value is computed once
Serve(request) ==
    \E cuts \in {sort_by_duration(request)} :
        /\ call' = [op |-> "getitem", cuts |-> request]
        /\ IF EarlyError(dataset, cuts) # ""
           THEN ret' = Raised(EarlyError(dataset, cuts))
           ELSE \E p \in {Prepare(dataset, cuts)} :
                \E a \in {Assemble(dataset, cuts, p)} :
                    ret' = ReturnBatch(p, a)
        /\ UNCHANGED <<dataset, run>>

GetItem ==
    /\ call = NoCall
    /\ \/ \E cuts \in MixedRequests : Serve(cuts)
       \/ /\ TriesEveryShape(dataset)
          /\ \E qs \in RegularShapes, mode \in RegularModes :
                Serve(RegularRequest(mode, qs))

\* __getitem__ on the s2s_align batches with overlapping words
GetItemAligned ==
    /\ call = NoCall
    /\ \E cuts \in AlignedRequests : Serve(cuts)

CollateTextData ==
    /\ call = NoCall
    /\ \E cuts \in TextRequests :
        /\ call' = [op |-> "collate_text_data", cuts |-> cuts]
        /\ ret' = collate_text_data(cuts, dataset.tokens_to_generate,
                                    dataset.pad_to_max_length, dataset.max_seq_length)
    /\ UNCHANGED <<dataset, run>>

Next == GetItem \/ GetItemAligned \/ CollateTextData \/ Return

Spec == Init /\ [][Next]_vars

(***************************************************************************)
(* The run plugins (nemo/lightning/run/plugins.py).  A callback            *)
(* configuration run.Config(cls, **args) is a record [cls, args], equal to *)
(* another when class and arguments are equal.  A mapping (os.environ,     *)
(* executor.env_vars) is a set of <<name, value>> pairs, one per name.     *)
(* A task is a record: kind "Partial" or "Script"; has_trainer and         *)
(* has_callbacks say whether task.trainer and task.trainer.callbacks       *)
(* exist; has_log and has_wandb say the same of task.log and               *)
(* task.log.wandb.                                                         *)
(***************************************************************************)
MaxCallbacks == 2

WANDB_API_KEY == "WANDB_API_KEY"

HasKey(mapping, name) == \E kv \in mapping : kv[1] = name

GetItemOf(mapping, name) == (CHOOSE kv \in mapping : kv[1] = name)[2]

\* mapping[name] = value
SetItem(mapping, name, value) ==
    {kv \in mapping : kv[1] # name} \cup {<<name, value>>}

Config(cls, args) == [cls |-> cls, args |-> args]

PreemptionCallback == Config("PreemptionCallback", <<>>)

\* run.Config(NsysCallback, start_step, end_step, ranks)
NsysCallback(start_step, end_step, ranks) ==
    Config("NsysCallback", <<start_step, end_step, ranks>>)

\* the loop of lines 39-41: a callback is appended unless the list holds an
\* equal one
RECURSIVE AppendMissing(_, _)
AppendMissing(list, callbacks) ==
    IF callbacks = <<>> THEN list
    ELSE AppendMissing(
            IF \E k \in 1..Len(list) : list[k] = Head(callbacks)
            THEN list ELSE Append(list, Head(callbacks)),
            Tail(callbacks))

\* a seeded fault: the callbacks are appended without the membership test
merge_callbacks_extend(partial, callbacks) ==
    IF partial.has_trainer
    THEN IF partial.has_callbacks
         THEN [partial EXCEPT !.callbacks = @ \o callbacks]
         ELSE [partial EXCEPT !.has_callbacks = TRUE, !.callbacks = callbacks]
    ELSE partial

\* _merge_callbacks(partial, callbacks), lines 36-43
merge_callbacks(partial, callbacks) ==
    IF partial.has_trainer
    THEN IF partial.has_callbacks
         THEN [partial EXCEPT !.callbacks = AppendMissing(@, callbacks)]
         ELSE [partial EXCEPT !.has_callbacks = TRUE, !.callbacks = callbacks]
    ELSE partial

\* PreemptionPlugin.setup(task, executor), lines 65-79: the task and the
\* executor it leaves
PreemptionPlugin_setup(self, t, e) ==
    IF t.kind = "Script" THEN [task |-> t, executor |-> e]
    ELSE [task |-> merge_callbacks(t, self.callbacks),
          executor |-> IF e.kind = "SlurmExecutor"
                       THEN [e EXCEPT !.signal = <<"TERM@", self.preempt_time>>]
                       ELSE e]

\* NsysPlugin.setup(task, executor), lines 105-118
NsysPlugin_setup(self, t, e) ==
    [task |->
        IF t.kind = "Partial"
        THEN merge_callbacks(t,
                <<NsysCallback(self.start_step, self.end_step,
                               IF self.ranks = <<>> THEN <<0>> ELSE self.ranks)>>)
        ELSE t,
     executor |->
        [e EXCEPT !.nsys_profile = TRUE,
                  !.nsys_trace = IF self.nsys_trace = <<>> THEN <<"nvtx", "cuda">>
                                 ELSE self.nsys_trace]]

\* the logger of lines 161-175: logger_fn(name=self.name), with the
\* serialized task and the experiment as its config when log_task_config
WandbLogger(self, t, e) ==
    [cls |-> "WandbLogger", name |-> self.name,
     config |->
        IF self.log_task_config
        THEN <<[callbacks |-> t.callbacks, task_name |-> self.name,
                remote_directory |-> e.kind = "SlurmExecutor"]>>
        ELSE <<>>]

\* a seeded fault: the run.Script test is dropped
WandbPlugin_setup_any(self, t, e, env) ==
    IF HasKey(env, WANDB_API_KEY)
    THEN [task |-> IF t.has_log /\ t.has_wandb
                   THEN [t EXCEPT !.wandb = WandbLogger(self, t, e)] ELSE t,
          executor |-> [e EXCEPT !.env_vars =
                            SetItem(@, WANDB_API_KEY, GetItemOf(env, WANDB_API_KEY))]]
    ELSE [task |-> t, executor |-> e]

\* WandbPlugin.setup(task, executor), lines 150-179
WandbPlugin_setup(self, t, e, env) ==
    IF t.kind = "Script" THEN [task |-> t, executor |-> e]
    ELSE IF HasKey(env, WANDB_API_KEY)
    THEN [task |-> IF t.has_log /\ t.has_wandb
                   THEN [t EXCEPT !.wandb = WandbLogger(self, t, e)] ELSE t,
          executor |-> [e EXCEPT !.env_vars =
                            SetItem(@, WANDB_API_KEY, GetItemOf(env, WANDB_API_KEY))]]
    ELSE [task |-> t, executor |-> e]

\* the plugins, tasks, executors and environments tried
UserCallback == Config("UserCallback", <<>>)

CallbackConfigs == {UserCallback, PreemptionCallback, NsysCallback(1, 2, <<0>>)}

CallbackLists == UNION {[1..n -> CallbackConfigs] : n \in 0..MaxCallbacks}

PreemptionPlugins ==
    {[preempt_time |-> 300, callbacks |-> cbs] :
        cbs \in {<<PreemptionCallback>>, <<PreemptionCallback, PreemptionCallback>>}}

NsysPlugins ==
    {[start_step |-> 1, end_step |-> 2, ranks |-> ranks, nsys_trace |-> <<>>] :
        ranks \in {<<>>, <<1>>}}

WandbPlugins ==
    {[name |-> "run", log_task_config |-> ltc] : ltc \in BOOLEAN}

NoLogger == [cls |-> "None", name |-> "", config |-> <<>>]

Tasks ==
    {[kind |-> "Script", has_trainer |-> FALSE, has_callbacks |-> FALSE,
      callbacks |-> <<>>, has_log |-> FALSE, has_wandb |-> FALSE, wandb |-> NoLogger]}
    \cup
    {[kind |-> "Partial", has_trainer |-> tr[1], has_callbacks |-> tr[2],
      callbacks |-> tr[3], has_log |-> lg[1], has_wandb |-> lg[2], wandb |-> NoLogger] :
        tr \in {<<FALSE, FALSE, <<>>>>, <<TRUE, FALSE, <<>>>>}
                \cup {<<TRUE, TRUE, cbs>> : cbs \in CallbackLists},
        lg \in {<<FALSE, FALSE>>, <<TRUE, FALSE>>, <<TRUE, TRUE>>}}

Executors ==
    {[kind |-> k, signal |-> <<>>, env_vars |-> ev,
      nsys_profile |-> FALSE, nsys_trace |-> <<>>] :
        k \in {"SlurmExecutor", "LocalExecutor"},
        ev \in {{}, {<<WANDB_API_KEY, "stale">>}}}

Environs == {{}, {<<WANDB_API_KEY, "secret">>}}

InitPlugins ==
    /\ dataset = DefaultDataset
    /\ call = NoCall
    /\ ret = NoRet
    /\ task \in Tasks
    /\ executor \in Executors
    /\ environ \in Environs
    /\ callbacks0 = [exists |-> task.has_trainer /\ task.has_callbacks,
                     list |-> task.callbacks]

\* one setup call: the plugin and the task and executor it was given are
\* kept in call, the task and executor it leaves are the new state
SetUp(op, plugin, after) ==
    /\ call' = [op |-> op, plugin |-> plugin, task |-> task, executor |-> executor]
    /\ task' = after.task
    /\ executor' = after.executor
    /\ UNCHANGED <<dataset, ret, environ, callbacks0>>

PreemptionSetup ==
    \E plugin \in PreemptionPlugins :
        SetUp("PreemptionPlugin.setup", plugin,
              PreemptionPlugin_setup(plugin, task, executor))

NsysSetup ==
    \E plugin \in NsysPlugins :
        SetUp("NsysPlugin.setup", plugin, NsysPlugin_setup(plugin, task, executor))

WandbSetup ==
    \E plugin \in WandbPlugins :
        SetUp("WandbPlugin.setup", plugin,
              WandbPlugin_setup(plugin, task, executor, environ))

NextPlugins == PreemptionSetup \/ NsysSetup \/ WandbSetup

SpecPlugins == InitPlugins /\ [][NextPlugins]_vars

(***************************************************************************)
(* Properties.                                                             *)
(***************************************************************************)
\* the number an element stands for, counted in halves
Halves(v, dt) == IF dt = "float" THEN v ELSE 2 * v

\* the integer part of a number counted in halves, rounded toward zero
Truncated(h) ==
    CHOOSE n \in (h \div 2 - 1)..(h \div 2 + 1) :
        /\ (h >= 0) => (2 * n <= h /\ h < 2 * n + 2)
        /\ (h < 0) => (2 * n >= h /\ h > 2 * n - 2)

ItemLen(items, i) == Len(items[i].data)

\* the shape collate_vectors promises: [N, max(max_length, longest item)]
ShapeOfCollate(r, items, max_length) ==
    /\ Len(r.data) = Len(items)
    /\ \A i \in 1..Len(items) :
        Len(r.data[i]) =
            Max2(max_length, SetMax({ItemLen(items, j) : j \in 1..Len(items)}))

\* C1 as stated: collate_vectors returns shape [N, max(max_length, longest)],
\* row i starts with item i unchanged and the rest of row i is padding_value,
\* for any items, max_length and padding_value.
C1_AsStated ==
    call.op = "collate_vectors" =>
        LET r == ret.value
            items == call.items
        IN  /\ ShapeOfCollate(r, items, call.max_length)
            /\ \A i \in 1..Len(items) : \A k \in 1..Len(r.data[i]) :
                Halves(r.data[i][k], r.dtype) =
                    IF k <= ItemLen(items, i)
                    THEN Halves(items[i].data[k], items[i].dtype)
                    ELSE Halves(call.padding_value.v, call.padding_value.dtype)

\* the distance between neighbouring float32 numbers around h: every integer
\* below 2^Float32Digits in size is a float32
Spacing(h) ==
    IF -(2^Float32Digits) < h /\ h < 2^Float32Digits THEN 1
    ELSE 2^(BitLength(IF h >= 0 THEN h ELSE -h) - Float32Digits)

\* the float32 nearest to h, which lies between the neighbours below and
\* above it; of two equally near, the one whose last binary digit is 0
NearestFloat32(h) ==
    LET below == h - (h % Spacing(h))
        above == below + Spacing(h)
    IN  IF 2 * (h - below) < Spacing(h) THEN below
        ELSE IF 2 * (h - below) > Spacing(h) THEN above
        ELSE IF (below \div Spacing(h)) % 2 = 0 THEN below ELSE above

\* the number x = [v, dtype] as an element of a tensor of dtype to: the
\* nearest float32, counted in halves, or the integer toward zero
InDtype(x, to) ==
    IF to = "float" THEN NearestFloat32(Halves(x.v, x.dtype))
    ELSE Truncated(Halves(x.v, x.dtype))

\* C1 amended: the shape is [N, max(max_length, longest)] and the result has
\* one dtype T, float when the first longest item or padding_value is float
\* and long otherwise; row i starts with item i converted to T and the rest
\* of row i is padding_value converted to T, a conversion to float giving
\* the nearest float32 and a conversion to long dropping the fraction; when
\* the first item is empty that result is then cast to long.
C1_Collate ==
    call.op = "collate_vectors" =>
        \A T \in {PromoteTypes(call.items[LongestItem(call.items)].dtype,
                               call.padding_value.dtype)} :
            LET r == ret.value
                items == call.items
                given(i, k) ==
                    IF k <= ItemLen(items, i)
                    THEN [v |-> items[i].data[k], dtype |-> items[i].dtype]
                    ELSE call.padding_value
                want(i, k) ==
                    IF ItemLen(items, 1) >= 1 THEN InDtype(given(i, k), T)
                    ELSE InDtype([v |-> InDtype(given(i, k), T), dtype |-> T], "long")
            IN  /\ ret.status = "ok"
                /\ ShapeOfCollate(r, items, call.max_length)
                /\ r.dtype = (IF ItemLen(items, 1) >= 1 THEN T ELSE "long")
                /\ \A i \in 1..Len(items) : \A k \in 1..Len(r.data[i]) :
                    r.data[i][k] = want(i, k)

\* C1 witness: a float item -1.5, a longer long item holding 16777217, the
\* padding_value 8388608.5 and a widened row: the result is float, the long
\* element is 16777216.0 and the padding is 8388608.0
C1_Witness ==
    /\ call.op = "collate_vectors"
    /\ ret.status = "ok"
    /\ Len(call.items) = 2
    /\ call.items[1] = [dtype |-> "float", data |-> <<-3>>]
    /\ call.items[2] = [dtype |-> "long", data |-> <<16777217, 7>>]
    /\ call.padding_value = [dtype |-> "float", v |-> 16777217]
    /\ call.max_length = 3
    /\ ret.value = [dtype |-> "float",
                    data |-> <<<<-3, 16777216, 16777216>>,
                               <<33554432, 14, 16777216>>>>]

(***************************************************************************)
(* Properties of __getitem__ and collate_text_data.  In a state where a    *)
(* call has been served, call holds its arguments and ret its result.      *)
(***************************************************************************)
Served(op) == call.op = op /\ ret.status # "none"

ReturnedBatch(op) == call.op = op /\ ret.status = "ok"

\* the examples of the batch, in the order __getitem__ processes them
Examples == sort_by_duration(call.cuts)

LastCut == Examples[Len(Examples)]

\* the whole assembled sequence of example i: tokens plus the trimmed step
Assembly(b, i) ==
    IF b.labels[i] = <<>> THEN b.tokens[i]
    ELSE Append(b.tokens[i], b.labels[i][Len(b.labels[i])])

\* the instruction rows at the head of example i's assembled sequence
InstructionRows(i) == IF dataset.t5_style THEN 0 ELSE Len(Examples[i].instr)

\* the padding id of channel c of a row
PadOf(c) == IF c = 1 THEN TextPadId ELSE SpeechPadId

\* the row that ends the codec frames: every speech column is speech_eos_id
IsCodecEndRow(row) == \A c \in 2..Len(row) : row[c] = SpeechEosId

\* C2: tokens and labels of every returned batch are one sequence shifted by
\* a step: equal shapes, labels[:, t] = tokens[:, t + 1], and loss_mask is as
\* long in time as labels.
C2_Shift ==
    (ReturnedBatch("getitem") \/ ReturnedBatch("collate_text_data")) =>
        LET b == ret.value
        IN  /\ Len(b.labels) = Len(b.tokens)
            /\ Len(b.loss_mask) = Len(b.labels)
            /\ \A i \in 1..Len(b.tokens) :
                /\ Len(b.labels[i]) = Len(b.tokens[i])
                /\ Len(b.loss_mask[i]) = Len(b.labels[i])
                /\ \A t \in 1..(Len(b.tokens[i]) - 1) :
                    b.labels[i][t] = b.tokens[i][t + 1]

\* C2 witness: a returned batch whose tokens change from one step to the next
C2_Witness ==
    /\ ReturnedBatch("getitem")
    /\ Len(ret.value.tokens) >= 2
    /\ Len(ret.value.tokens[1]) >= 3
    /\ ret.value.tokens[1][1] # ret.value.tokens[1][2]
    /\ ret.value.labels[1][1] # ret.value.labels[1][2]

\* the end-marker row: text eos, every speech column speech bos
IsEndMarkerRow(row) ==
    /\ row[1] = TextEosId
    /\ \A c \in 2..Len(row) : row[c] = SpeechBosId

\* C3 as stated: in every returned batch the loss mask is False wherever the
\* text column is text_pad_id or a speech column is speech_pad_id, outside
\* the end-marker row, and, with t5_style off, over the whole instruction
\* prefix of every example.
C3_AsStated ==
    ReturnedBatch("getitem") =>
        LET b == ret.value
        IN  \A i \in 1..Len(b.labels) : \A t \in 1..Len(b.labels[i]) :
                /\ \A c \in 1..Len(b.labels[i][t]) :
                    (/\ b.labels[i][t][c] = PadOf(c)
                     /\ ~IsEndMarkerRow(b.labels[i][t]))
                        => ~b.loss_mask[i][t][c]
                /\ (~dataset.t5_style /\ t + 1 <= Len(Examples[i].instr))
                        => \A c \in 1..Len(b.loss_mask[i][t]) : ~b.loss_mask[i][t][c]

\* C3 amended: in every returned batch the loss mask is False wherever the
\* text column is text_pad_id or a speech column is speech_pad_id, but for
\* the text column of the row that ends the codec frames of an s2s_align
\* example (speech columns speech_eos_id, text column text_pad_id), whose
\* mask is the mask of the row's first speech column; and, with t5_style
\* off, the mask is False over the whole instruction prefix of every example.
C3_MaskOff ==
    ReturnedBatch("getitem") =>
        LET b == ret.value
        IN  \A i \in 1..Len(b.labels) : \A t \in 1..Len(b.labels[i]) :
                /\ \A c \in 1..Len(b.labels[i][t]) :
                    b.labels[i][t][c] = PadOf(c) =>
                        IF /\ c = 1
                           /\ HasFlag(LastCut, "s2s_align")
                           /\ IsCodecEndRow(b.labels[i][t])
                        THEN b.loss_mask[i][t][1] = b.loss_mask[i][t][2]
                        ELSE ~b.loss_mask[i][t][c]
                /\ (~dataset.t5_style /\ t + 1 <= Len(Examples[i].instr))
                        => \A c \in 1..Len(b.loss_mask[i][t]) : ~b.loss_mask[i][t][c]

\* C3 witness: an s2s_align batch with t5_style off: an instruction row
\* whose mask is off, a padding row whose mask is off, and the row that ends
\* the codec frames, text_pad_id in its text column, whose mask is on
C3_Witness ==
    /\ ReturnedBatch("getitem")
    /\ HasFlag(LastCut, "s2s_align")
    /\ ~dataset.t5_style
    /\ \E i \in 1..Len(ret.value.labels) :
        /\ Len(Examples[i].instr) >= 1
        /\ \A c \in 1..Len(ret.value.loss_mask[i][1]) : ~ret.value.loss_mask[i][1][c]
    /\ \E i \in 1..Len(ret.value.labels) : \E t \in 1..Len(ret.value.labels[i]) :
        /\ ret.value.labels[i][t][1] = TextPadId
        /\ ret.value.labels[i][t][2] = SpeechPadId
        /\ ~ret.value.loss_mask[i][t][1]
        /\ ~ret.value.loss_mask[i][t][2]
    /\ \E i \in 1..Len(ret.value.labels) : \E t \in 1..Len(ret.value.labels[i]) :
        /\ ret.value.labels[i][t][1] = TextPadId
        /\ IsCodecEndRow(ret.value.labels[i][t])
        /\ ret.value.loss_mask[i][t][1]
        /\ ret.value.loss_mask[i][t][2]

\* C4 as stated: in s2s mode with t5_style off the loss mask of example i is
\* True at every position outside example i's own instruction rows that is
\* not padding.
C4_AsStated ==
    (ReturnedBatch("getitem") /\ HasFlag(LastCut, "s2s") /\ ~dataset.t5_style) =>
        LET b == ret.value
        IN  \A i \in 1..Len(b.labels) : \A t \in 1..Len(b.labels[i]) :
                \A c \in 1..Len(b.labels[i][t]) :
                    (t + 1 > Len(Examples[i].instr) /\ b.labels[i][t][c] # PadOf(c))
                        => b.loss_mask[i][t][c]

\* a request of one mode: every cut carries that flag alone, speakers in order
RequestOfMode(mode) ==
    \A i \in 1..Len(call.cuts) :
        /\ call.cuts[i].flags = {mode}
        /\ call.cuts[i].spk1 = "user"
        /\ call.cuts[i].spk2 = "agent"

\* C5 as stated: an s2t request always gets a batch; its speech columns of the
\* loss mask are all False and its text column is True at the target
\* positions that are not padding.
C5_AsStated ==
    (/\ Served("getitem")
     /\ RequestOfMode("s2t")
     /\ dataset.load_answer_audio
     /\ dataset.decoder_reduction_factor = 1) =>
        /\ ret.status = "ok"
        /\ \A i \in 1..Len(ret.value.labels) : \A t \in 1..Len(ret.value.labels[i]) :
            /\ \A c \in 2..Len(ret.value.loss_mask[i][t]) : ~ret.value.loss_mask[i][t][c]
            /\ (t + 1 > InstructionRows(i) /\ ret.value.labels[i][t][1] # TextPadId)
                    => ret.value.loss_mask[i][t][1]

\* an example whose first speaker is not "user" or second is not "agent"
WrongSpeakers(cut) == cut.spk1 # "user" \/ cut.spk2 # "agent"

\* C6: a request with a wrong speaker in any example raises, whatever the
\* dataset and the other examples; no batch is returned.
C6_Speakers ==
    (Served("getitem") /\ \E i \in 1..Len(call.cuts) : WrongSpeakers(call.cuts[i])) =>
        /\ ret.status = "error"
        /\ ret.error \in {"First speaker should be user",
                          "Second speaker should be agent"}

\* C6 witness: the wrong speakers are in the first example processed, the
\* other examples are in order, and the request was refused
C6_Witness ==
    /\ Served("getitem")
    /\ dataset.load_answer_audio
    /\ Len(Examples) >= 2
    /\ Examples[1].spk2 # "agent"
    /\ \A i \in 2..Len(Examples) : ~WrongSpeakers(Examples[i])
    /\ HasFlag(LastCut, "s2s")
    /\ ret = Raised("Second speaker should be agent")

\* C7 as stated: a request whose examples do not all carry the same single
\* mode flag is refused with an error.
C7_AsStated ==
    (/\ Served("getitem")
     /\ ~\E mode \in Modes : \A i \in 1..Len(call.cuts) : call.cuts[i].flags = {mode}) =>
        ret.status = "error"

\* C8: a dataset built with load_answer_audio = False refuses every request.
C8_LoadAnswerAudio ==
    (Served("getitem") /\ ~dataset.load_answer_audio) => ret.status = "error"

\* C8 witness: an s2s request in order, refused by the assertion
C8_Witness ==
    /\ Served("getitem")
    /\ ~dataset.load_answer_audio
    /\ dataset.decoder_reduction_factor = 1
    /\ RequestOfMode("s2s")
    /\ ret = Raised("AssertionError")

\* the number of codec frames of a cut: the least n with
\* n * codec_model_downsampling_factor >= answer_len
FramesOf(cut) ==
    CHOOSE n \in 0..cut.answer_len :
        /\ n * dataset.codec_downsampling_halves >= 2 * cut.answer_len
        /\ (n - 1) * dataset.codec_downsampling_halves < 2 * cut.answer_len

\* the rows of example i before padding, in s2s mode
S2SRows(i) ==
    InstructionRows(i) + Len(TargetTextOf(Examples[i])) + 1 + FramesOf(Examples[i]) + 1

\* C9: in s2s mode example i's assembled sequence is its instruction rows
\* (t5_style off), its target-text rows, one (text eos, speech bos) row, its
\* codec rows, one speech-eos row, then padding rows to the batch length.
C9_S2SSequence ==
    (ReturnedBatch("getitem") /\ HasFlag(LastCut, "s2s")) =>
        LET b == ret.value
            K == dataset.n_speech_codebooks * dataset.decoder_reduction_factor
        IN  \A i \in 1..Len(Examples) :
                LET seq == Assembly(b, i)
                    n0 == InstructionRows(i)
                    text == TargetTextOf(Examples[i])
                    n1 == n0 + Len(text)
                    n2 == n1 + 1 + FramesOf(Examples[i])
                IN  /\ Len(seq) = SetMax({S2SRows(j) : j \in 1..Len(Examples)})
                    /\ \A t \in 1..Len(seq) :
                        seq[t] =
                            IF t <= n0 THEN Row(K, Examples[i].instr[t], SpeechUnkId)
                            ELSE IF t <= n1 THEN Row(K, text[t - n0], SpeechUnkId)
                            ELSE IF t = n1 + 1 THEN Row(K, TextEosId, SpeechBosId)
                            ELSE IF t <= n2 THEN Row(K, TextUnkId, SpeechPadId - 1)
                            ELSE IF t = n2 + 1 THEN Row(K, TextUnkId, SpeechEosId)
                            ELSE Row(K, TextPadId, SpeechPadId)

\* C9 witness: two s2s examples, t5_style off, one with instruction, text and
\* codec rows, the other shorter and padded
C9_Witness ==
    /\ ReturnedBatch("getitem")
    /\ RequestOfMode("s2s")
    /\ ~dataset.t5_style
    /\ Len(Examples) = 2
    /\ \E i, j \in 1..2 :
        /\ Len(Examples[i].instr) >= 1
        /\ Len(Examples[i].words) >= 1
        /\ FramesOf(Examples[i]) >= 1
        /\ S2SRows(j) < S2SRows(i)
        /\ Assembly(ret.value, j)[S2SRows(i)][1] = TextPadId

\* C10 as stated: a direct_s2s request gets a batch; example i's assembled
\* sequence is its instruction rows (t5_style off), one bos row, its codec
\* rows and one speech-eos row, and the loss mask follows the s2s rule.
C10_AsStated ==
    (/\ Served("getitem")
     /\ RequestOfMode("direct_s2s")
     /\ dataset.load_answer_audio
     /\ dataset.decoder_reduction_factor = 1) =>
        /\ ret.status = "ok"
        /\ \A i \in 1..Len(Examples) :
            LET seq == Assembly(ret.value, i)
                K == dataset.n_speech_codebooks * dataset.decoder_reduction_factor
                n0 == InstructionRows(i)
                n2 == n0 + 1 + FramesOf(Examples[i])
            IN  \A t \in 1..Len(seq) :
                    /\ t <= n0 => seq[t] = Row(K, Examples[i].instr[t], SpeechUnkId)
                    /\ t = n0 + 1 => seq[t] = Row(K, TextBosId, SpeechBosId)
                    /\ (n0 + 1 < t /\ t <= n2) => seq[t] = Row(K, TextUnkId, SpeechPadId - 1)
                    /\ t = n2 + 1 => seq[t] = Row(K, TextUnkId, SpeechEosId)
                    /\ t > n2 + 1 => seq[t] = Row(K, TextPadId, SpeechPadId)

\* a returned batch of the s2s_align branch
AlignedBatch ==
    /\ ReturnedBatch("getitem")
    /\ ~HasFlag(LastCut, "s2s")
    /\ HasFlag(LastCut, "s2s_align")

\* the frame word w of a cut starts at, its ids, and the frames it covers
WordFrame(cut, w) == StartTimeIndex(dataset, cut.words[w].start)

WordCovers(cut, w, t) ==
    WordFrame(cut, w) <= t /\ t < WordFrame(cut, w) + Len(WordIds(cut, w))

\* C11 as stated: in the s2s_align expansion the k-th id of every word is at
\* frame f + k (when that frame is before the example's end), every frame
\* before the end that no word covers holds text_unk_id, and the frames from
\* the end onward hold no word id.
C11_AsStated ==
    AlignedBatch =>
        \A i \in 1..Len(Examples) :
            LET cut == Examples[i]
                expanded == ret.value.target_texts_expanded[i]
                end == FramesOf(cut)
            IN  /\ \A w \in 1..Len(cut.words) : \A k \in 0..(Len(WordIds(cut, w)) - 1) :
                    WordFrame(cut, w) + k < end =>
                        expanded[WordFrame(cut, w) + k + 1] = WordIds(cut, w)[k + 1]
                /\ \A t \in 0..(end - 1) :
                    (~\E w \in 1..Len(cut.words) : WordCovers(cut, w, t)) =>
                        expanded[t + 1] = TextUnkId
                /\ \A t \in end..(Len(expanded) - 1) : expanded[t + 1] = TextPadId

\* C11 amended: every frame before the example's end that some word covers
\* holds the id of the last such word in the text (a later word overwrites an
\* earlier one where they overlap), every frame before the end that no word
\* covers holds text_unk_id, the frames from the end onward hold
\* text_pad_id, and the expansion is the text column of the codec rows.
C11_Expansion ==
    AlignedBatch =>
        \A i \in 1..Len(Examples) :
            LET cut == Examples[i]
                expanded == ret.value.target_texts_expanded[i]
                end == FramesOf(cut)
                seq == Assembly(ret.value, i)
            IN  /\ Len(expanded) = SetMax({FramesOf(Examples[j]) + 1 : j \in 1..Len(Examples)})
                /\ \A t \in 0..(end - 1) :
                    LET covering == {w \in 1..Len(cut.words) : WordCovers(cut, w, t)}
                    IN  expanded[t + 1] =
                            IF covering = {} THEN TextUnkId
                            ELSE LET w == SetMax(covering)
                                 IN  WordIds(cut, w)[t - WordFrame(cut, w) + 1]
                /\ \A t \in end..(Len(expanded) - 1) : expanded[t + 1] = TextPadId
                /\ \A t \in 0..end :
                    seq[InstructionRows(i) + 1 + t + 1][1] = expanded[t + 1]

\* C11 witness: two words of one example overlap before its end, and the
\* shared frame holds the later word's first id
C11_Witness ==
    /\ AlignedBatch
    /\ \E i \in 1..Len(Examples) :
        LET cut == Examples[i]
        IN  /\ Len(cut.words) = 2
            /\ WordCovers(cut, 1, WordFrame(cut, 2))
            /\ WordFrame(cut, 2) < FramesOf(cut)
            /\ WordFrame(cut, 1) < WordFrame(cut, 2)
            /\ ret.value.target_texts_expanded[i][WordFrame(cut, 2) + 1] = WordIds(cut, 2)[1]
            /\ ret.value.target_texts_expanded[i][WordFrame(cut, 1) + 1] = WordIds(cut, 1)[1]

\* the time length of a padded array (its rows are equally long)
TimeLength(array) == Len(array[1])

\* C12 as stated: no token array of a returned batch is longer in time than
\* max_seq_length.
C12_AsStated ==
    /\ ReturnedBatch("getitem") =>
        /\ TimeLength(ret.value.tokens) <= dataset.max_seq_length
        /\ TimeLength(ret.value.labels) <= dataset.max_seq_length
        /\ TimeLength(ret.value.instructions) <= dataset.max_seq_length
        /\ TimeLength(ret.value.target_texts) <= dataset.max_seq_length
    /\ ReturnedBatch("collate_text_data") =>
        /\ TimeLength(ret.value.tokens) <= dataset.max_seq_length
        /\ TimeLength(ret.value.labels) <= dataset.max_seq_length
        /\ TimeLength(ret.value.contexts) <= dataset.max_seq_length
        /\ TimeLength(ret.value.answers) <= dataset.max_seq_length

\* n rounded up to a multiple of 8
RoundedUp8(n) == CHOOSE r \in n..(n + 7) : r % 8 = 0

\* the rows of example i's assembled sequence before padding, in the two
\* modes that return a batch
RowsOf(i) ==
    IF HasFlag(LastCut, "s2s") THEN S2SRows(i)
    ELSE InstructionRows(i) + 1 + FramesOf(Examples[i]) + 1

\* the length pad_to_max_length and max_seq_length ask of a batch whose
\* longest example has n steps
PaddedLength(n) ==
    IF dataset.pad_to_max_length THEN dataset.max_seq_length
    ELSE Min2(dataset.max_seq_length, RoundedUp8(n))

\* C13 as stated: with pad_to_max_length the assembled sequence, the
\* instructions and the target_texts are max_seq_length long; without it they
\* are as long as the batch's longest rounded up to a multiple of 8 and capped
\* at max_seq_length.
C13_AsStated ==
    ReturnedBatch("getitem") =>
        /\ TimeLength(ret.value.tokens) + 1 =
                PaddedLength(SetMax({RowsOf(i) : i \in 1..Len(Examples)}))
        /\ TimeLength(ret.value.instructions) =
                PaddedLength(SetMax({Len(Examples[i].instr) : i \in 1..Len(Examples)}))
        /\ TimeLength(ret.value.target_texts) =
                PaddedLength(SetMax({Len(TargetTextOf(Examples[i])) : i \in 1..Len(Examples)}))

\* C14 as stated: tokens_length[i] + 1 is the number of rows of example i's
\* assembled sequence before padding, clamped to the padded length T, and
\* tokens_length[i] is at most the time length of tokens.
C14_AsStated ==
    ReturnedBatch("getitem") =>
        \A i \in 1..Len(Examples) :
            /\ ret.value.tokens_length[i] + 1 =
                    Min2(RowsOf(i), TimeLength(ret.value.tokens) + 1)
            /\ ret.value.tokens_length[i] <= TimeLength(ret.value.tokens)

\* C15: in every returned batch audio_signal is [N, longest waveform],
\* audio_signal_length[i] is the length of example i's waveform, and row i is
\* that waveform followed by zeros.
C15_Audio ==
    ReturnedBatch("getitem") =>
        LET b == ret.value
            longest == SetMax({Len(Examples[i].audio) : i \in 1..Len(Examples)})
        IN  /\ Len(b.audio_signal) = Len(Examples)
            /\ Len(b.audio_signal_length) = Len(Examples)
            /\ \A i \in 1..Len(Examples) :
                /\ Len(b.audio_signal[i]) = longest
                /\ b.audio_signal_length[i] = Len(Examples[i].audio)
                /\ \A k \in 1..longest :
                    b.audio_signal[i][k] =
                        IF k <= Len(Examples[i].audio) THEN Examples[i].audio[k] ELSE 0

\* C15 witness: two waveforms of different lengths, the shorter one padded
C15_Witness ==
    /\ ReturnedBatch("getitem")
    /\ Len(Examples) = 2
    /\ Len(Examples[2].audio) < Len(Examples[1].audio)
    /\ ret.value.audio_signal_length = <<Len(Examples[1].audio), Len(Examples[2].audio)>>
    /\ ret.value.audio_signal[2][Len(Examples[1].audio)] = 0
    /\ ret.value.audio_signal[1][Len(Examples[1].audio)] # 0

\* C16: when the first item of collate_vectors is empty the result is
\* integer-typed whatever the items and padding_value are; when it is not
\* empty the result is not cast, even if another item is empty: it is float
\* as soon as the first longest item or padding_value is float.
C16_IntegerTyped ==
    call.op = "collate_vectors" =>
        /\ Len(call.items[1].data) = 0 => ret.value.dtype = "long"
        /\ (/\ Len(call.items[1].data) > 0
            /\ (\/ call.items[LongestItem(call.items)].dtype = "float"
                \/ call.padding_value.dtype = "float"))
                => ret.value.dtype = "float"

\* C16 witness: an empty first item, a float item after it and a float
\* padding_value, and an integer result
C16_Witness ==
    /\ call.op = "collate_vectors"
    /\ Len(call.items) = 2
    /\ call.items[1] = [dtype |-> "float", data |-> <<>>]
    /\ call.items[2].dtype = "float"
    /\ Len(call.items[2].data) > 0
    /\ call.padding_value.dtype = "float"
    /\ ret.value.dtype = "long"

\* C18: the 3-D expansion of the target texts (include_eos = True) has, for
\* example i, the text id and speech_unk_id in the rows below its text
\* length, one (text eos, speech bos) row at its text length, and
\* (text_pad_id, speech_pad_id) in every later row.
C18_TextExpansion ==
    (ReturnedBatch("getitem") /\ HasFlag(LastCut, "s2s")) =>
        LET K == dataset.n_speech_codebooks * dataset.decoder_reduction_factor
        IN  \A i \in 1..Len(Examples) :
                LET text == TargetTextOf(Examples[i])
                    expanded == ret.value.target_texts_expanded[i]
                IN  /\ Len(expanded) = TimeLength(ret.value.target_texts) + 1
                    /\ Len(expanded) > Len(text)
                    /\ \A t \in 1..Len(expanded) :
                        expanded[t] =
                            IF t <= Len(text) THEN Row(K, text[t], SpeechUnkId)
                            ELSE IF t = Len(text) + 1 THEN Row(K, TextEosId, SpeechBosId)
                            ELSE Row(K, TextPadId, SpeechPadId)

\* C18 witness: a text of two ids or more, its end-marker row and a padding
\* row after it
C18_Witness ==
    /\ ReturnedBatch("getitem")
    /\ HasFlag(LastCut, "s2s")
    /\ \E i \in 1..Len(Examples) :
        LET K == dataset.n_speech_codebooks * dataset.decoder_reduction_factor
            n == Len(TargetTextOf(Examples[i]))
            expanded == ret.value.target_texts_expanded[i]
        IN  /\ n >= 2
            /\ Len(expanded) >= n + 2
            /\ expanded[n] = Row(K, TargetTextOf(Examples[i])[n], SpeechUnkId)
            /\ expanded[n + 1] = Row(K, TextEosId, SpeechBosId)
            /\ expanded[n + 2] = Row(K, TextPadId, SpeechPadId)

(***************************************************************************)
(* Properties of the run plugins.  After a setup call, call holds the      *)
(* plugin and the task and executor it was given, task and executor are    *)
(* what it left.                                                           *)
(***************************************************************************)
\* C17: WandbPlugin.setup leaves the task and the executor, env_vars
\* included, as they were when WANDB_API_KEY is not in the environment or
\* the task is a run.Script.
C17_WandbFrame ==
    (/\ call.op = "WandbPlugin.setup"
     /\ (~HasKey(environ, WANDB_API_KEY) \/ call.task.kind = "Script")) =>
        /\ task = call.task
        /\ executor = call.executor

\* C17 witness: both cases, where a setup with the key would have had
\* something to change: a run.Script with the key set and an executor whose
\* env_vars hold another key, or no key and a task with log.wandb
C17_Witness ==
    /\ call.op = "WandbPlugin.setup"
    /\ task = call.task
    /\ executor = call.executor
    /\ \/ /\ call.task.kind = "Script"
          /\ HasKey(environ, WANDB_API_KEY)
          /\ HasKey(executor.env_vars, WANDB_API_KEY)
          /\ GetItemOf(executor.env_vars, WANDB_API_KEY)
                # GetItemOf(environ, WANDB_API_KEY)
       \/ /\ call.task.kind = "Partial"
          /\ ~HasKey(environ, WANDB_API_KEY)
          /\ call.task.has_log /\ call.task.has_wandb
          /\ call.plugin.log_task_config

\* how many times a callback is in a list
Count(list, callback) == Cardinality({k \in 1..Len(list) : list[k] = callback})

\* the callbacks a setup call merges into the trainer's
CallbacksOf(op, plugin) ==
    IF op = "PreemptionPlugin.setup" THEN plugin.callbacks
    ELSE IF op = "NsysPlugin.setup"
    THEN <<NsysCallback(plugin.start_step, plugin.end_step,
                        IF plugin.ranks = <<>> THEN <<0>> ELSE plugin.ranks)>>
    ELSE <<>>

\* a run.Partial whose trainer had a callbacks list, after a
\* PreemptionPlugin.setup or NsysPlugin.setup
MergedIntoList ==
    /\ call.op \in {"PreemptionPlugin.setup", "NsysPlugin.setup"}
    /\ task.kind = "Partial"
    /\ callbacks0.exists

\* C19 as stated: after the setup calls the original callbacks are still
\* first and in order, and each callback of the plugin is in the list
\* exactly once.
C19_AsStated ==
    MergedIntoList =>
        /\ Len(task.callbacks) >= Len(callbacks0.list)
        /\ SubSeq(task.callbacks, 1, Len(callbacks0.list)) = callbacks0.list
        /\ \A k \in 1..Len(CallbacksOf(call.op, call.plugin)) :
            Count(task.callbacks, CallbacksOf(call.op, call.plugin)[k]) = 1

\* C19, amended: the original list is kept whole and in order at the front,
\* duplicates included; what follows it are callbacks it did not hold, each
\* once; every callback of the plugin just set up is in the list, once when
\* the original list did not hold it and as often as there otherwise; and
\* the setup of a plugin whose callbacks the list already held changed
\* nothing.
C19_Merged ==
    (task.kind = "Partial" /\ callbacks0.exists) =>
        LET n0 == Len(callbacks0.list)
            merged == CallbacksOf(call.op, call.plugin)
        IN  /\ Len(task.callbacks) >= n0
            /\ SubSeq(task.callbacks, 1, n0) = callbacks0.list
            /\ \A k \in (n0 + 1)..Len(task.callbacks) :
                Count(task.callbacks, task.callbacks[k]) = 1
            /\ \A k \in 1..Len(merged) :
                Count(task.callbacks, merged[k]) =
                    IF Count(callbacks0.list, merged[k]) > 0
                    THEN Count(callbacks0.list, merged[k]) ELSE 1
            /\ (/\ call # NoCall
                /\ \A k \in 1..Len(merged) :
                        Count(call.task.callbacks, merged[k]) > 0)
                    => task.callbacks = call.task.callbacks

\* C19 witness: an original list of two different callbacks with both
\* plugins' callbacks after it, the last setup being a repeated one
C19_Witness ==
    /\ MergedIntoList
    /\ Len(callbacks0.list) = 2
    /\ callbacks0.list[1] # callbacks0.list[2]
    /\ Len(task.callbacks) = 4
    /\ Count(task.callbacks, PreemptionCallback) = 1
    /\ \A k \in 1..Len(CallbacksOf(call.op, call.plugin)) :
        Count(call.task.callbacks, CallbacksOf(call.op, call.plugin)[k]) = 1
    /\ task.callbacks = call.task.callbacks

====
